---------------------------- MODULE Spec2Model ----------------------------
(***************************************************************************)
(* Model of src/app.py, the Swift-Cart market basket dashboard: one run of *)
(* the script, from load_data() to the page selected in the sidebar.       *)
(*                                                                         *)
(* app.py computes nothing itself: it calls TransactionEncoder, apriori,   *)
(* fpgrowth and association_rules of mlxtend.frequent_patterns and         *)
(* sort_values/head of pandas.  Each call is modelled, at the line of      *)
(* app.py that makes it, by what the called library function does with    *)
(* the arguments app.py passes (mlxtend's apriori.py, fpgrowth.py,         *)
(* fpcommon.py and association_rules.py).                                  *)
(*                                                                         *)
(* Numbers.  A support is the pair <<count, rows>>, a confidence or lift a *)
(* reduced pair <<num, den>>; comparisons are exact.  The library works in *)
(* IEEE doubles.  On the datasets enumerated here (DatasetsApp, and        *)
(* DatasetsMiner with Thresholds) every comparison the library makes       *)
(* (support >= min_support, confidence >= 0.3, lift > 1.0, lift >= 1.0)    *)
(* has the same outcome in doubles as in exact arithmetic, with one        *)
(* exception, which is modelled: math.ceil(min_support * rows) in          *)
(* fpgrowth (see FloatProductOvershoots).                                  *)
(***************************************************************************)
EXTENDS Integers, Sequences, FiniteSets, TLC

VARIABLES
    csv,                  \* swiftcart_transactions_P4.csv: [exists, rows]
    min_support,          \* apriori's min_support argument (line 82)
    fp_min_support,       \* fpgrowth's min_support argument (line 238)
    pc,                   \* position of the script
    defined,              \* names of the script's globals assigned so far
    raised,               \* exception that ended the run, or "none"
    messages,             \* st.error / st.warning / st.success output, in order
    df,                   \* DataFrame returned by load_data()
    basket,               \* [columns, X]: the boolean presence matrix
    max_itemset,          \* apriori: size of the last level stored
    itemset_dict,         \* apriori: itemset_dict[k], the frequent k-itemsets
    support_dict,         \* apriori: support_dict[k], their supports
    combin,               \* apriori: the candidates generated last
    frequent_itemsets,    \* result of apriori (line 82)
    rules,                \* result of association_rules (83), filtered (84)
    menu,                 \* sidebar selection
    frequent_itemsets_fp, \* result of fpgrowth (line 238)
    rules_fp,             \* result of association_rules (line 241)
    shown                 \* what the selected page rendered

vars == <<csv, min_support, fp_min_support, pc, defined, raised, messages, df,
          basket, max_itemset, itemset_dict, support_dict, combin,
          frequent_itemsets, rules, menu, frequent_itemsets_fp, rules_fp, shown>>

----------------------------------------------------------------------------
(* Bounds and input families                                               *)

\* A dataset is at most MaxBlocks blocks; a block is one basket bought in
\* `mult` consecutive transactions.  Datasets of up to MaxWideBlocks blocks
\* range over all of Products, longer ones over NarrowProducts.
MaxBlocks == 3

MaxWideBlocks == 2

\* Product names, identified by their rank in sorted order of the
\* normalised ("Title Case", stripped) names.
Products == {1, 2, 3}

NarrowProducts == {1, 2}

\* Block sizes of the datasets the dashboard is run on: 20 and 1 give 21
\* transactions, where one transaction is a support between 0.01 and 0.05.
AppMults == {1, 4, 20}

\* Block sizes of the datasets the two miners are compared on: 7 and 18 give
\* 25 transactions, where 7 transactions are a support of exactly 0.28; 6 and
\* 7 give 13, where 6 transactions are one short of a support of 0.5.
MinerMults == {1, 6, 7, 18}

\* Thresholds the two miners are compared at, as <<numerator, denominator>>.
Thresholds == {<<1, 2>>, <<7, 25>>}

Baskets(k) ==
    (SUBSET (IF k <= MaxWideBlocks THEN Products ELSE NarrowProducts)) \ {{}}

Descs(mults) ==
    UNION {[1..k -> [items : Baskets(k), mult : mults]] : k \in 0..MaxBlocks}

----------------------------------------------------------------------------
(* Sequences and fractions                                                 *)

Range(s) == {s[i] : i \in DOMAIN s}

RECURSIVE SetToSeq(_)
\* sorted(S) for a set of integers
SetToSeq(S) ==
    IF S = {} THEN <<>>
    ELSE LET m == CHOOSE x \in S : \A y \in S : x <= y
         IN  <<m>> \o SetToSeq(S \ {m})

RECURSIVE Flatten(_)
Flatten(ss) == IF ss = <<>> THEN <<>> ELSE Head(ss) \o Flatten(Tail(ss))

RECURSIVE Repeat(_, _)
Repeat(x, k) == IF k = 0 THEN <<>> ELSE <<x>> \o Repeat(x, k - 1)

RECURSIVE GCD(_, _)
GCD(a, b) == IF b = 0 THEN a ELSE GCD(b, a % b)

\* A quotient of non-negative integers in lowest terms; <<p, 0>> is a
\* division by zero.
Frac(p, q) ==
    LET g == GCD(p, q) IN IF g = 0 THEN <<p, q>> ELSE <<p \div g, q \div g>>

FracDiv(a, b) == Frac(a[1] * b[2], a[2] * b[1])

Geq(a, b) == a[1] * b[2] >= b[1] * a[2]

Gt(a, b) == a[1] * b[2] > b[1] * a[2]

----------------------------------------------------------------------------
(* The CSV file                                                            *)

\* A raw Product_Name: the product and whether the cell is already in
\* normalised form ("Bread") or not (" bread ").
RawName(p, tid) == [product |-> p, clean |-> (tid % 2 = 0)]

\* .str.strip().str.title()
Normalise(raw) == raw.product

RECURSIVE Expand(_)
Expand(desc) ==
    IF desc = <<>> THEN <<>>
    ELSE Repeat(Head(desc).items, Head(desc).mult) \o Expand(Tail(desc))

RECURSIVE RowsFrom(_, _)
RowsFrom(txs, tid) ==
    IF txs = <<>> THEN <<>>
    ELSE LET names == SetToSeq(Head(txs))
         IN  [i \in 1..Len(names) |->
                 [Transaction_ID |-> tid,
                  Product_Name   |-> RawName(names[i], tid)]]
             \o RowsFrom(Tail(txs), tid + 1)

CsvOf(desc) == [exists |-> TRUE, rows |-> RowsFrom(Expand(desc), 1)]

MissingCsv == [exists |-> FALSE, rows |-> <<>>]

DatasetsApp == {MissingCsv} \cup {CsvOf(d) : d \in Descs(AppMults)}

DatasetsMiner == {CsvOf(d) : d \in Descs(MinerMults)}

\* min_support=0.01 (line 82), min_support=0.05 (line 238),
\* min_threshold=0.3 with metric="confidence" (line 83),
\* min_threshold=1.0 with metric="lift" (line 241), lift > 1.0 (line 84)
AprioriMinSupport == <<1, 100>>

FpMinSupport == <<5, 100>>

MinConfidence == <<3, 10>>

FpMinLift == <<1, 1>>

LiftFilter == <<1, 1>>

----------------------------------------------------------------------------
(* load_data, groupby, TransactionEncoder                                  *)

\* pd.read_csv + normalisation of Product_Name; an empty frame when the file
\* is missing.
ReadCsv(file) ==
    [i \in 1..Len(file.rows) |->
        [Transaction_ID |-> file.rows[i].Transaction_ID,
         Product_Name   |-> Normalise(file.rows[i].Product_Name)]]

\* df.groupby('Transaction_ID')['Product_Name'].apply(list).values: one list
\* per transaction id, ids ascending, names in row order.
GroupBy(frame) ==
    LET tids == SetToSeq({frame[i].Transaction_ID : i \in DOMAIN frame})
        Names(t) ==
            LET rs == SelectSeq(frame, LAMBDA r : r.Transaction_ID = t)
            IN  [i \in 1..Len(rs) |-> rs[i].Product_Name]
    IN  [k \in 1..Len(tids) |-> Names(tids[k])]

\* TransactionEncoder().fit(t).transform(t): columns_ is the sorted list of
\* the distinct items; X[r][j] says whether transaction r holds columns_[j].
\* A name repeated within one transaction is one presence.
Encoder(transactions) ==
    LET cols == SetToSeq(UNION {Range(transactions[r]) : r \in DOMAIN transactions})
    IN  [columns |-> cols,
         X |-> [r \in 1..Len(transactions) |->
                   [j \in 1..Len(cols) |-> cols[j] \in Range(transactions[r])]]]

----------------------------------------------------------------------------
(* mlxtend apriori, as called on line 82                                   *)

\* np.sum(np.all(X[:, combo], axis=...), axis=0) / rows_count
ColumnSupport(X, cols) ==
    <<Cardinality({r \in 1..Len(X) : \A j \in cols : X[r][j]}), Len(X)>>

FrequentStrict(sup, t) == Gt(sup, t)

\* support >= min_support
Frequent(sup, t) == Geq(sup, t)

GenerateFromFirstItem(old_combinations) ==
    LET types == SetToSeq(UNION {Range(c) : c \in Range(old_combinations)})
        Ext(c) ==
            LET valid == SelectSeq(types, LAMBDA i : i > c[1] /\ i \notin Range(c))
            IN  [j \in 1..Len(valid) |-> Append(c, valid[j])]
    IN  Flatten([k \in 1..Len(old_combinations) |-> Ext(old_combinations[k])])

\* generate_new_combinations: every stored (k-1)-itemset, in order, is
\* extended by every item larger than its last one that occurs in some
\* stored (k-1)-itemset.
GenerateNewCombinations(old_combinations) ==
    LET types == SetToSeq(UNION {Range(c) : c \in Range(old_combinations)})
        Ext(c) ==
            LET valid == SelectSeq(types, LAMBDA i : i > c[Len(c)])
            IN  [j \in 1..Len(valid) |-> Append(c, valid[j])]
    IN  Flatten([k \in 1..Len(old_combinations) |-> Ext(old_combinations[k])])

\* Level 1: the columns whose support meets the threshold.
FirstLevel(b, t) ==
    SelectSeq([j \in 1..Len(b.columns) |-> <<j>>],
              LAMBDA c : Frequent(ColumnSupport(b.X, Range(c)), t))

\* The candidates of `cands` that meet the threshold.
FrequentAmong(b, cands, t) ==
    SelectSeq(cands, LAMBDA c : Frequent(ColumnSupport(b.X, Range(c)), t))

SupportsOf(b, combos) ==
    [i \in 1..Len(combos) |-> ColumnSupport(b.X, Range(combos[i]))]

ResDfTopLevelOnly(b, idict, sdict) ==
    LET k == Len(idict)
    IN  [i \in 1..Len(idict[k]) |->
            [support  |-> sdict[k][i],
             itemsets |-> {b.columns[j] : j \in Range(idict[k][i])}]]

\* res_df: the levels concatenated in order of size, column indices mapped
\* to column names (use_colnames=True).
ResDf(b, idict, sdict) ==
    Flatten([k \in 1..Len(idict) |->
        [i \in 1..Len(idict[k]) |->
            [support  |-> sdict[k][i],
             itemsets |-> {b.columns[j] : j \in Range(idict[k][i])}]]])

----------------------------------------------------------------------------
(* mlxtend association_rules, as called on lines 83 and 241                *)

RECURSIVE Combinations(_, _)
\* itertools.combinations(s, r), in its order
Combinations(s, r) ==
    IF r = 0 THEN <<<<>>>>
    ELSE IF Len(s) < r THEN <<>>
    ELSE LET withHead == Combinations(Tail(s), r - 1)
         IN  [i \in 1..Len(withHead) |-> <<Head(s)>> \o withHead[i]]
             \o Combinations(Tail(s), r)

\* frequent_items_dict: itemset -> support
HasSupport(fi, S) == \E i \in DOMAIN fi : fi[i].itemsets = S

SupportOf(fi, S) == fi[CHOOSE i \in DOMAIN fi : fi[i].itemsets = S].support

ConfidenceInverted(sAC, sA, sC) == FracDiv(sA, sAC)

\* metric_dict["confidence"]: sAC / sA
Confidence(sAC, sA, sC) == FracDiv(sAC, sA)

\* metric_dict["lift"]: confidence / sC
Lift(sAC, sA, sC) == FracDiv(Confidence(sAC, sA, sC), sC)

Score(metric, sAC, sA, sC) ==
    IF metric = "confidence" THEN Confidence(sAC, sA, sC)
    ELSE Lift(sAC, sA, sC)

SplitsAntecedentSizeOneOnly(k) ==
    LET items == SetToSeq(k)
    IN  IF Len(items) < 2 THEN <<>>
        ELSE [i \in 1..Len(items) |->
                 [antecedents |-> {items[i]}, consequents |-> k \ {items[i]}]]

\* The antecedent/consequent splits of itemset k, antecedents of size
\* len(k)-1 first, down to size 1.  (combinations(k, r) follows the
\* iteration order of the frozenset k, which is modelled as sorted.)
Splits(k) ==
    LET items == SetToSeq(k)
        OfSize(r) ==
            LET cs == Combinations(items, r)
            IN  [i \in 1..Len(cs) |->
                    [antecedents |-> Range(cs[i]),
                     consequents |-> k \ Range(cs[i])]]
    IN  Flatten([d \in 1..(Len(items) - 1) |-> OfSize(Len(items) - d)])

\* Every split of every frequent itemset, in the order of the frame.
AllSplits(fi) ==
    Flatten([i \in 1..Len(fi) |->
        LET sp == Splits(fi[i].itemsets)
        IN  [j \in 1..Len(sp) |->
                [antecedents |-> sp[j].antecedents,
                 consequents |-> sp[j].consequents,
                 union       |-> fi[i].itemsets]]])

ScoredRule(fi, sp) ==
    LET sAC == SupportOf(fi, sp.union)
        sA  == SupportOf(fi, sp.antecedents)
        sC  == SupportOf(fi, sp.consequents)
    IN  [antecedents        |-> sp.antecedents,
         consequents        |-> sp.consequents,
         antecedent_support |-> sA,
         consequent_support |-> sC,
         support            |-> sAC,
         confidence         |-> Confidence(sAC, sA, sC),
         lift               |-> Lift(sAC, sA, sC)]

\* association_rules(df, metric, min_threshold): ValueError on an empty
\* frame, KeyError when the support of an antecedent or consequent is not in
\* the frame, else the splits whose score meets the threshold.  `index` is
\* the row's label in the returned frame.
AssociationRules(fi, metric, min_threshold) ==
    IF fi = <<>> THEN [error |-> "ValueError", rows |-> <<>>]
    ELSE
    LET sps == AllSplits(fi)
    IN  IF \E j \in DOMAIN sps : ~HasSupport(fi, sps[j].antecedents)
                                 \/ ~HasSupport(fi, sps[j].consequents)
        THEN [error |-> "KeyError", rows |-> <<>>]
        ELSE
        LET scored == [j \in 1..Len(sps) |-> ScoredRule(fi, sps[j])]
            kept == SelectSeq(scored,
                        LAMBDA r : Geq(Score(metric, r.support, r.antecedent_support,
                                             r.consequent_support), min_threshold))
        IN  [error |-> "none",
             rows  |-> [j \in 1..Len(kept) |->
                          [index |-> j - 1, rule |-> kept[j]]]]

\* rules[rules['lift'] > 1.0]
LiftAbove(rs, bound) == SelectSeq(rs, LAMBDA r : Gt(r.rule.lift, bound))

\* frozen_to_str (the join follows the frozenset's iteration order, modelled
\* as sorted): lines 87-92
FrozenToStr(fset) == SetToSeq(fset)

WithStrings(rs) ==
    [i \in 1..Len(rs) |->
        [index |-> rs[i].index, rule |-> rs[i].rule,
         antecedents_str |-> FrozenToStr(rs[i].rule.antecedents),
         consequents_str |-> FrozenToStr(rs[i].rule.consequents)]]

----------------------------------------------------------------------------
(* pandas sort_values(by=..., ascending=False).head(k)                     *)

RECURSIVE SortedPrefixes(_, _, _)
\* The index sequences a descending sort followed by head(k) may return.
\* sort_values is called without kind=, so pandas sorts with numpy's
\* quicksort, which is not stable: rows with equal keys come in any order.
SortedPrefixes(keys, remaining, k) ==
    IF k = 0 \/ remaining = {} THEN {<<>>}
    ELSE UNION {
            {<<i>> \o s : s \in SortedPrefixes(keys, remaining \ {i}, k - 1)} :
            i \in {j \in remaining : \A l \in remaining : Geq(keys[j], keys[l])}}

RECURSIVE StablePrefix(_, _, _)
\* The one result of a stable descending sort followed by head(k).
StablePrefix(keys, remaining, k) ==
    IF k = 0 \/ remaining = {} THEN <<>>
    ELSE LET best == {j \in remaining : \A l \in remaining : Geq(keys[j], keys[l])}
             i == CHOOSE j \in best : \A l \in best : j <= l
         IN  <<i>> \o StablePrefix(keys, remaining \ {i}, k - 1)

\* rows.sort_values(by=key, ascending=False).head(k): the possible results
TopK(rows, keys, k) ==
    {[i \in 1..Len(s) |-> rows[s[i]]] : s \in SortedPrefixes(keys, DOMAIN rows, k)}

LiftKeys(rs) == [i \in DOMAIN rs |-> rs[i].rule.lift]

ConfidenceKeys(rs) == [i \in DOMAIN rs |-> rs[i].rule.confidence]

SupportKeys(fi) == [i \in DOMAIN fi |-> fi[i].support]

----------------------------------------------------------------------------
(* mlxtend fpgrowth, as called on line 238                                 *)

\* An FPTree is its nodes in order of creation, each [item, path, count]
\* with `path` the items from the root down to the node itself; tree.nodes
\* (item -> list of nodes) is the nodes with that item, in this order.
NodesOf(nodes, item) == SelectSeq(nodes, LAMBDA nd : nd.item = item)

\* tree.nodes.keys(): the items in order of their first node
Keys(nodes) ==
    LET firsts == SelectSeq([i \in 1..Len(nodes) |-> i],
                     LAMBDA i : \A j \in 1..(i - 1) : nodes[j].item # nodes[i].item)
    IN  [k \in 1..Len(firsts) |-> nodes[firsts[k]].item]

Children(nodes, p) ==
    {i \in DOMAIN nodes : Len(nodes[i].path) = Len(p) + 1
                          /\ SubSeq(nodes[i].path, 1, Len(p)) = p}

\* FPTree.is_path
IsPath(nodes) ==
    /\ Cardinality(Children(nodes, <<>>)) <= 1
    /\ \A i \in DOMAIN nodes :
          /\ Len(NodesOf(nodes, nodes[i].item)) <= 1
          /\ Cardinality(Children(nodes, nodes[i].path)) <= 1

RECURSIVE StableSortBy(_, _)
\* list.sort(key=cnt.get) / ndarray.argsort(): ascending by cnt, items of
\* equal cnt in their given order
StableSortBy(s, cnt) ==
    IF s = <<>> THEN <<>>
    ELSE LET i == CHOOSE i \in DOMAIN s :
                     /\ \A j \in DOMAIN s : cnt[s[i]] <= cnt[s[j]]
                     /\ \A j \in 1..(i - 1) : cnt[s[j]] > cnt[s[i]]
         IN  <<s[i]>> \o StableSortBy(SubSeq(s, 1, i - 1) \o SubSeq(s, i + 1, Len(s)), cnt)

Reverse(s) == [i \in 1..Len(s) |-> s[Len(s) + 1 - i]]

\* The items of `present` in descending rank; `ranked` lists the ranked
\* items by ascending rank.
ByRankDescending(ranked, present) ==
    Reverse(SelectSeq(ranked, LAMBDA it : it \in present))

\* insert_itemset over the itemsets in order: an existing node on the path is
\* counted up, a missing one is created.  The nodes are therefore the
\* distinct prefixes of the itemsets in order of first occurrence, each
\* counted with the itemsets that run through it.
InsertAll(itemsets, counts) ==
    LET n == Len(itemsets)
        width == Cardinality(UNION {Range(itemsets[r]) : r \in 1..n})
        RowOf(i) == ((i - 1) \div width) + 1
        AtOf(i) == ((i - 1) % width) + 1
        Through(p) == {r \in 1..n : /\ Len(itemsets[r]) >= Len(p)
                                    /\ SubSeq(itemsets[r], 1, Len(p)) = p}
        created == SelectSeq([i \in 1..(n * width) |-> i],
                      LAMBDA i :
                         /\ AtOf(i) <= Len(itemsets[RowOf(i)])
                         /\ \A r \in Through(SubSeq(itemsets[RowOf(i)], 1, AtOf(i))) :
                               r >= RowOf(i))
        Sum[r \in 0..n, p \in UNION {{SubSeq(itemsets[q], 1, k) : k \in 1..Len(itemsets[q])} :
                                    q \in 1..n}] ==
            IF r = 0 THEN 0
            ELSE (IF r \in Through(p) THEN counts[r] ELSE 0) + Sum[r - 1, p]
    IN  [k \in 1..Len(created) |->
            LET p == SubSeq(itemsets[RowOf(created[k])], 1, AtOf(created[k]))
            IN  [item |-> p[Len(p)], path |-> p, count |-> Sum[n, p]]]

\* setup_fptree: the columns with support >= min_support, ranked by
\* ascending support; every transaction's ranked items are inserted most
\* frequent first.
SetupFptree(b, t) ==
    LET m == Len(b.columns)
        cnt == [j \in 1..m |-> ColumnSupport(b.X, {j})[1]]
        items == SelectSeq([j \in 1..m |-> j],
                           LAMBDA j : Frequent(ColumnSupport(b.X, {j}), t))
        ranked == StableSortBy(items, cnt)
        paths == [r \in 1..Len(b.X) |->
                     ByRankDescending(ranked, {j \in 1..m : b.X[r][j]})]
    IN  [nodes |-> InsertAll(paths, [r \in 1..Len(b.X) |-> 1]),
         cond_items |-> <<>>]

\* FPTree.conditional_tree
ConditionalTree(tree, cond_item, minsup) ==
    LET nds == NodesOf(tree.nodes, cond_item)
        branches == [i \in 1..Len(nds) |->
                        SubSeq(nds[i].path, 1, Len(nds[i].path) - 1)]
        flat == Flatten(branches)
        seen == SelectSeq([i \in 1..Len(flat) |-> i],
                    LAMBDA i : \A j \in 1..(i - 1) : flat[j] # flat[i])
        counted == [k \in 1..Len(seen) |-> flat[seen[k]]]
        count == [it \in Range(flat) |->
                    LET with == {i \in 1..Len(nds) : it \in Range(branches[i])}
                        Sum[S \in SUBSET with] ==
                            IF S = {} THEN 0
                            ELSE LET i == CHOOSE i \in S : TRUE
                                 IN  nds[i].count + Sum[S \ {i}]
                    IN  Sum[with]]
        items == SelectSeq(counted, LAMBDA it : count[it] >= minsup)
        ranked == StableSortBy(items, count)
        paths == [i \in 1..Len(nds) |->
                     ByRankDescending(ranked, Range(branches[i]))]
    IN  [nodes |-> InsertAll(paths, [i \in 1..Len(nds) |-> nds[i].count]),
         cond_items |-> Append(tree.cond_items, cond_item)]

SumCounts(nds) ==
    LET Sum[i \in 0..Len(nds)] == IF i = 0 THEN 0 ELSE nds[i].count + Sum[i - 1]
    IN  Sum[Len(nds)]

MinCount(nodes, itemset) ==
    LET cs == {NodesOf(nodes, itemset[i])[1].count : i \in DOMAIN itemset}
    IN  CHOOSE c \in cs : \A d \in cs : c <= d

RECURSIVE FpgStep(_, _)
\* fpg_step: a tree that is a single path yields every combination of its
\* items; any other tree yields its items and then recurses into the
\* conditional tree of each.
FpgStep(tree, minsup) ==
    LET items == Keys(tree.nodes)
    IN  IF IsPath(tree.nodes)
        THEN Flatten([r \in 1..Len(items) |->
                LET cs == Combinations(items, r)
                IN  [i \in 1..Len(cs) |->
                        [sup  |-> MinCount(tree.nodes, cs[i]),
                         iset |-> tree.cond_items \o cs[i]]]])
        ELSE [k \in 1..Len(items) |->
                 [sup  |-> SumCounts(NodesOf(tree.nodes, items[k])),
                  iset |-> Append(tree.cond_items, items[k])]]
             \o Flatten([k \in 1..Len(items) |->
                    FpgStep(ConditionalTree(tree, items[k], minsup), minsup)])

\* Whether the double product min_support * rows lies above the exact
\* product, which is then an integer: 0.28 * 25 = 7.000000000000001, and so
\* for 50, 75 and 100 rows.  The doubles 0.01 * n, 0.05 * n and 0.5 * n do
\* not overshoot for any n up to 100000.
FloatProductOvershoots(t, rows) == t = <<7, 25>> /\ rows \in {25, 50, 75, 100}

\* minsup = math.ceil(min_support * len(df.index))
MinSupCount(t, rows) ==
    (t[1] * rows + t[2] - 1) \div t[2]
    + (IF FloatProductOvershoots(t, rows) THEN 1 ELSE 0)

FPGrowthSinglesOnly(b, t) ==
    LET tree == SetupFptree(b, t)
        items == Keys(tree.nodes)
    IN  [k \in 1..Len(items) |->
            [support  |-> <<SumCounts(NodesOf(tree.nodes, items[k])), Len(b.X)>>,
             itemsets |-> {b.columns[items[k]]}]]

\* fpgrowth(df, min_support, use_colnames=True): generate_itemsets over
\* fpg_step of the tree of setup_fptree
FPGrowth(b, t) ==
    LET gen == FpgStep(SetupFptree(b, t), MinSupCount(t, Len(b.X)))
    IN  [i \in 1..Len(gen) |->
            [support  |-> <<gen[i].sup, Len(b.X)>>,
             itemsets |-> {b.columns[j] : j \in Range(gen[i].iset)}]]

----------------------------------------------------------------------------
(* The script                                                              *)

Menus == {"Home", "Data Overview", "Frequent Item Analysis",
          "Association Rules Explorer", "Golden Rules",
          "Advanced Visualizations", "Business Strategy"}

Msg(kind, text) == [kind |-> kind, text |-> text]

InitWith(file, t, tfp) ==
    /\ csv = file
    /\ min_support = t
    /\ fp_min_support = tfp
    /\ pc = "start"
    /\ defined = {}
    /\ raised = "none"
    /\ messages = <<>>
    /\ df = <<>>
    /\ basket = [columns |-> <<>>, X |-> <<>>]
    /\ max_itemset = 0
    /\ itemset_dict = <<>>
    /\ support_dict = <<>>
    /\ combin = <<>>
    /\ frequent_itemsets = <<>>
    /\ rules = <<>>
    /\ menu = "Home"
    /\ frequent_itemsets_fp = <<>>
    /\ rules_fp = <<>>
    /\ shown = <<>>

\* The dashboard: the thresholds are the literals of lines 82 and 238.
Init == \E file \in DatasetsApp : InitWith(file, AprioriMinSupport, FpMinSupport)

\* The two miners on one matrix at one threshold.
MinerInit == \E file \in DatasetsMiner, t \in Thresholds : InitWith(file, t, t)

minerVars == <<max_itemset, itemset_dict, support_dict, combin, frequent_itemsets>>

pageVars == <<menu, frequent_itemsets_fp, rules_fp, shown>>

inputVars == <<csv, min_support, fp_min_support>>

\* load_data(): lines 62-72
LoadData ==
    /\ pc = "start"
    /\ IF csv.exists
       THEN /\ df' = ReadCsv(csv)
            /\ messages' = messages
       ELSE /\ df' = <<>>
            /\ messages' = Append(messages, Msg("error", "Data file not found."))
    /\ defined' = defined \cup {"df"}
    /\ pc' = "loaded"
    /\ UNCHANGED <<inputVars, raised, basket, minerVars, rules, pageVars>>

DataLoadedAlways(frame) == TRUE

\* not df.empty: line 74
DataLoaded(frame) == frame # <<>>

\* Data preprocessing: lines 76-79
Encode ==
    /\ pc = "loaded"
    /\ DataLoaded(df)
    /\ basket' = Encoder(GroupBy(df))
    /\ defined' = defined \cup {"transactions", "te", "te_array", "basket"}
    /\ pc' = "encoded"
    /\ UNCHANGED <<inputVars, raised, messages, df, minerVars, rules, pageVars>>

\* The else branch: lines 402-403
NoData ==
    /\ pc = "loaded"
    /\ ~DataLoaded(df)
    /\ messages' = Append(messages, Msg("warning", "Data could not be loaded."))
    /\ pc' = "done"
    /\ UNCHANGED <<inputVars, defined, raised, df, basket, minerVars, rules, pageVars>>

\* apriori, before its loop: the frequent single columns
AprioriStart ==
    /\ pc = "encoded"
    /\ LET first == FirstLevel(basket, min_support)
       IN  /\ itemset_dict' = <<first>>
           /\ support_dict' = <<SupportsOf(basket, first)>>
    /\ max_itemset' = 1
    /\ pc' = "apriori"
    /\ UNCHANGED <<inputVars, defined, raised, messages, df, basket, combin,
                   frequent_itemsets, rules, pageVars>>

LevelIsLastAlways(cands, found) == TRUE

\* The loop's two breaks: no candidate (combin.size == 0), or none frequent
\* (not any(_mask)).
LevelIsLast(cands, found) == cands = <<>> \/ found = <<>>

\* One pass of apriori's loop that stores a level
AprioriExtend ==
    /\ pc = "apriori"
    /\ LET cands == GenerateNewCombinations(itemset_dict[max_itemset])
           found == FrequentAmong(basket, cands, min_support)
       IN  /\ ~LevelIsLast(cands, found)
           /\ combin' = cands
           /\ itemset_dict' = Append(itemset_dict, found)
           /\ support_dict' = Append(support_dict, SupportsOf(basket, found))
    /\ max_itemset' = max_itemset + 1
    /\ UNCHANGED <<inputVars, pc, defined, raised, messages, df, basket,
                   frequent_itemsets, rules, pageVars>>

\* The pass that breaks out of the loop, and the frame apriori returns
AprioriFinish ==
    /\ pc = "apriori"
    /\ LET cands == GenerateNewCombinations(itemset_dict[max_itemset])
           found == FrequentAmong(basket, cands, min_support)
       IN  /\ LevelIsLast(cands, found)
           /\ combin' = cands
    /\ frequent_itemsets' = ResDf(basket, itemset_dict, support_dict)
    /\ defined' = defined \cup {"frequent_itemsets"}
    /\ pc' = "mined"
    /\ UNCHANGED <<inputVars, raised, messages, df, basket, max_itemset,
                   itemset_dict, support_dict, rules, pageVars>>

\* rules = association_rules(frequent_itemsets, metric="confidence",
\* min_threshold=0.3): line 83.  An exception ends the run.
RuleGen ==
    /\ pc = "mined"
    /\ LET r == AssociationRules(frequent_itemsets, "confidence", MinConfidence)
       IN  IF r.error = "none"
           THEN /\ rules' = r.rows
                /\ defined' = defined \cup {"rules"}
                /\ raised' = raised
                /\ pc' = "rules"
           ELSE /\ rules' = rules
                /\ defined' = defined
                /\ raised' = r.error
                /\ pc' = "done"
    /\ UNCHANGED <<inputVars, messages, df, basket, minerVars, pageVars>>

\* rules = rules[rules['lift'] > 1.0] and the string columns: lines 84-92
PostFilter ==
    /\ pc = "rules"
    /\ rules' = WithStrings(LiftAbove(rules, LiftFilter))
    /\ pc' = "sidebar"
    /\ UNCHANGED <<inputVars, defined, raised, messages, df, basket, minerVars,
                   pageVars>>

\* st.selectbox("Navigation Module", ...): lines 95-113
SelectMenu ==
    /\ pc = "sidebar"
    /\ menu' \in Menus
    /\ pc' = "page"
    /\ UNCHANGED <<inputVars, defined, raised, messages, df, basket, minerVars,
                   rules, frequent_itemsets_fp, rules_fp, shown>>

NUnique(frame, column) ==
    IF column = "Transaction_ID"
    THEN Cardinality({frame[i].Transaction_ID : i \in DOMAIN frame})
    ELSE Cardinality({frame[i].Product_Name : i \in DOMAIN frame})

Show(what, rows) == [what |-> what, rows |-> rows]

OnPage(page) == pc = "page" /\ menu = page

Render(out, msgs) ==
    /\ shown' = out
    /\ messages' = messages \o msgs
    /\ pc' = "done"
    /\ UNCHANGED <<inputVars, defined, raised, df, basket, minerVars, rules, menu,
                   frequent_itemsets_fp, rules_fp>>

\* lines 117-131
PageHome ==
    /\ OnPage("Home")
    /\ Render(<<Show("Total Transactions", <<NUnique(df, "Transaction_ID")>>),
                Show("Unique Products", <<NUnique(df, "Product_Name")>>)>>,
              <<>>)

\* df['Product_Name'].value_counts(): one row per product, with its count
ValueCounts(frame) ==
    LET ps == SetToSeq({frame[i].Product_Name : i \in DOMAIN frame})
    IN  [k \in 1..Len(ps) |->
            [product |-> ps[k],
             count |-> Cardinality({i \in DOMAIN frame : frame[i].Product_Name = ps[k]})]]

\* The possible row sets of sort_values(ascending=False).head(k), for a
\* rendering that does not show the order of the rows.
TopKSets(rows, keys, k) ==
    IF Len(rows) <= k THEN {Range(rows)}
    ELSE {{rows[i] : i \in S} :
            S \in {T \in SUBSET (DOMAIN rows) :
                     /\ Cardinality(T) = k
                     /\ \A i \in T : \A j \in (DOMAIN rows) \ T : Geq(keys[i], keys[j])}}

\* lines 133-149 (Total_Basket_Value, a column no computation reads, is not
\* modelled)
PageDataOverview ==
    /\ OnPage("Data Overview")
    /\ LET counts == ValueCounts(df)
       IN  \E top \in TopKSets(counts, [i \in DOMAIN counts |-> <<counts[i].count, 1>>], 10) :
               Render(<<Show("Transactions", <<NUnique(df, "Transaction_ID")>>),
                        Show("Products", <<NUnique(df, "Product_Name")>>),
                        Show("Total Records", <<Len(df)>>),
                        Show("Sample Transactions",
                             SubSeq(df, 1, IF Len(df) < 5 THEN Len(df) ELSE 5)),
                        Show("Top Selling Products", top)>>,
                      <<>>)

\* lines 151-181
PageFrequentItems ==
    /\ OnPage("Frequent Item Analysis")
    /\ LET single_items == SelectSeq(frequent_itemsets,
                                     LAMBDA e : Cardinality(e.itemsets) = 1)
       IN  \E top \in TopK(single_items, SupportKeys(single_items), 10) :
               Render(<<Show("Top 10 Most Frequent Items", top)>>, <<>>)

\* lines 183-212
PageExplorer ==
    /\ OnPage("Association Rules Explorer")
    /\ \E product \in Range(basket.columns) :
          LET filtered_rules ==
                  SelectSeq(rules, LAMBDA r : product \in r.rule.antecedents)
          IN  IF filtered_rules # <<>>
              THEN \E top3 \in TopK(filtered_rules, LiftKeys(filtered_rules), 3) :
                      Render(<<Show("Selected", <<product>>), Show("Recommend", top3)>>,
                             <<Msg("success", "Top Recommendations")>>)
              ELSE Render(<<Show("Selected", <<product>>)>>,
                          <<Msg("warning", "No strong association rules found.")>>)

\* lines 215-228
PageGoldenRules ==
    /\ OnPage("Golden Rules")
    /\ \E top5 \in TopK(rules, LiftKeys(rules), 10) :
          Render(<<Show("Golden Rules", top5)>>, <<>>)

\* lines 374-400
PageBusiness ==
    /\ OnPage("Business Strategy")
    /\ \E layout_suggestions \in TopK(rules, LiftKeys(rules), 1),
          bundle_suggestions \in TopK(rules, ConfidenceKeys(rules), 3) :
          Render(<<Show("Store Layout", layout_suggestions),
                   Show("Digital Bundles", bundle_suggestions)>>,
                 [i \in 1..Len(layout_suggestions) |-> Msg("success", "Action: place racks")]
                 \o <<Msg("success", "Breakfast Zone"),
                      Msg("success", "Butter next to Bread"),
                      Msg("success", "Coffee near bakery")>>)

\* frequent_itemsets_fp = fpgrowth(basket, min_support=0.05, ...): line 238
AdvFPGrowth ==
    /\ OnPage("Advanced Visualizations")
    /\ frequent_itemsets_fp' = FPGrowth(basket, fp_min_support)
    /\ defined' = defined \cup {"frequent_itemsets_fp"}
    /\ pc' = "adv_rules"
    /\ UNCHANGED <<inputVars, raised, messages, df, basket, minerVars, rules, menu,
                   rules_fp, shown>>

\* rules_fp = association_rules(frequent_itemsets_fp, metric="lift",
\* min_threshold=1.0): line 241
AdvRules ==
    /\ pc = "adv_rules"
    /\ LET r == AssociationRules(frequent_itemsets_fp, "lift", FpMinLift)
       IN  IF r.error = "none"
           THEN /\ rules_fp' = r.rows
                /\ defined' = defined \cup {"rules_fp"}
                /\ raised' = raised
                /\ pc' = "adv_render"
           ELSE /\ rules_fp' = rules_fp
                /\ defined' = defined
                /\ raised' = r.error
                /\ pc' = "done"
    /\ UNCHANGED <<inputVars, messages, df, basket, minerVars, rules, menu,
                   frequent_itemsets_fp, shown>>

\* The tables and charts of the page: lines 242-372.  A chart is modelled by
\* the rows it draws.
AdvRender ==
    /\ pc = "adv_render"
    /\ \E fp_display \in TopKSets(frequent_itemsets_fp, SupportKeys(frequent_itemsets_fp), 20),
          top_rules_fp \in TopKSets(rules_fp, LiftKeys(rules_fp), 20),
          top_rules_heatmap \in TopKSets(rules_fp, LiftKeys(rules_fp), 10) :
          /\ shown' = <<Show("Found", <<Len(frequent_itemsets_fp), Len(rules_fp)>>),
                        Show("Top 20 Frequent Itemsets", fp_display),
                        Show("Top 20 Rules by Lift", top_rules_fp),
                        Show("Network", top_rules_fp),
                        Show("Heatmap", top_rules_heatmap)>>
          /\ messages' = messages
                \o <<Msg("success", "FP-Growth Analysis Complete!")>>
                \o (IF top_rules_fp = {}
                    THEN <<Msg("warning", "No rules found with sufficient lift.")>>
                    ELSE <<>>)
                \o (IF top_rules_heatmap = {}
                    THEN <<Msg("warning", "Not enough data for heatmap.")>>
                    ELSE <<>>)
    /\ pc' = "done"
    /\ UNCHANGED <<inputVars, defined, raised, df, basket, minerVars, rules, menu,
                   frequent_itemsets_fp, rules_fp>>

\* fpgrowth on the matrix apriori has just mined, at fp_min_support
MinerFPGrowth ==
    /\ pc = "mined"
    /\ frequent_itemsets_fp' = FPGrowth(basket, fp_min_support)
    /\ defined' = defined \cup {"frequent_itemsets_fp"}
    /\ pc' = "done"
    /\ UNCHANGED <<inputVars, raised, messages, df, basket, minerVars, rules, menu,
                   rules_fp, shown>>

Next ==
    \/ LoadData \/ Encode \/ NoData
    \/ AprioriStart \/ AprioriExtend \/ AprioriFinish
    \/ RuleGen \/ PostFilter \/ SelectMenu
    \/ PageHome \/ PageDataOverview \/ PageFrequentItems \/ PageExplorer
    \/ PageGoldenRules \/ PageBusiness
    \/ AdvFPGrowth \/ AdvRules \/ AdvRender

MinerNext ==
    \/ LoadData \/ Encode \/ NoData
    \/ AprioriStart \/ AprioriExtend \/ AprioriFinish
    \/ MinerFPGrowth

\* One run of the dashboard
Spec == Init /\ [][Next]_vars


\* apriori and fpgrowth on the same matrix at the same threshold
MinerSpec == MinerInit /\ [][MinerNext]_vars

\* A step that is a pass of apriori's loop: it stores a level or leaves the
\* loop.  One of the two is possible whenever the loop is entered.
LoopPass ==
    /\ pc = "apriori"
    /\ \/ max_itemset' = max_itemset + 1 /\ pc' = pc
       \/ max_itemset' = max_itemset /\ pc' = "mined"

\* apriori's loop waits on nothing: a pass that can be made is made.
FairMinerSpec ==
    MinerInit /\ [][MinerNext]_vars /\ WF_<<pc, max_itemset>>(LoopPass)

----------------------------------------------------------------------------
(* Reference notions, computed from the rows of df and not from the matrix *)

TxIds == {df[i].Transaction_ID : i \in DOMAIN df}

AllItems == {df[i].Product_Name : i \in DOMAIN df}

\* Transaction t holds every item of S.
Holds(t, S) ==
    \A p \in S : \E i \in DOMAIN df :
        df[i].Transaction_ID = t /\ df[i].Product_Name = p

TxCount(S) == Cardinality({t \in TxIds : Holds(t, S)})

TrueSupport(S) == <<TxCount(S), Cardinality(TxIds)>>

NonEmptySubsets(S) == (SUBSET S) \ {{}}

\* The itemsets whose support is at least t, each with its support.
ExactFrequent(t) ==
    {[support |-> TrueSupport(S), itemsets |-> S] :
        S \in {T \in NonEmptySubsets(AllItems) : Geq(TrueSupport(T), t)}}

NoDuplicates(fi) ==
    \A i, j \in DOMAIN fi : fi[i].itemsets = fi[j].itemsets => i = j

\* Every <<antecedent, consequent>> with both non-empty whose union is an
\* itemset of fi.
ProperSplits(fi) ==
    UNION {{<<A, fi[i].itemsets \ A>> : A \in NonEmptySubsets(fi[i].itemsets) \ {fi[i].itemsets}} :
            i \in DOMAIN fi}

RuleSplits(rs) ==
    {<<rs[i].rule.antecedents, rs[i].rule.consequents>> : i \in DOMAIN rs}

TrueConfidence(A, C) == <<TxCount(A \cup C), TxCount(A)>>

TrueLift(A, C) ==
    <<TxCount(A \cup C) * Cardinality(TxIds), TxCount(A) * TxCount(C)>>

SameFraction(a, b) == a[1] * b[2] = b[1] * a[2]

\* The (k-1)-subsets of the k-itemset c, as sets of columns.
SubsetsOneSmaller(c) == {Range(c) \ {c[i]} : i \in DOMAIN c}

\* The level below the candidates of combin, as sets of columns.
LevelBelow(c) == {Range(x) : x \in Range(itemset_dict[Len(c) - 1])}

----------------------------------------------------------------------------
(* Claims                                                                  *)

\* C1: apriori returns exactly the non-empty itemsets whose support (the
\* transactions holding all its items over all transactions) is at least
\* min_support, each once and with that support: none missing, none extra,
\* an itemset whose support equals min_support included, one whose count is
\* below the threshold excluded.
C1_AprioriExact ==
    "frequent_itemsets" \in defined =>
        /\ Range(frequent_itemsets) = ExactFrequent(min_support)
        /\ NoDuplicates(frequent_itemsets)

\* C1's case: 25 transactions at min_support 0.28, an itemset held by exactly
\* 7 of them in the result.
C1_Witness ==
    /\ pc = "mined"
    /\ min_support = <<7, 25>>
    /\ Len(basket.X) = 25
    /\ \E i \in DOMAIN frequent_itemsets : frequent_itemsets[i].support = <<7, 25>>

C3_RulesByCalledMetric ==
    /\ pc = "rules" =>
          RuleSplits(rules) =
             {sp \in ProperSplits(frequent_itemsets) :
                 Geq(TrueConfidence(sp[1], sp[2]), MinConfidence)}
    /\ pc = "sidebar" =>
          RuleSplits(rules) =
             {sp \in ProperSplits(frequent_itemsets) :
                 /\ Geq(TrueConfidence(sp[1], sp[2]), MinConfidence)
                 /\ Gt(TrueLift(sp[1], sp[2]), LiftFilter)}
    /\ pc = "adv_render" =>
          RuleSplits(rules_fp) =
             {sp \in ProperSplits(frequent_itemsets_fp) :
                 Geq(TrueLift(sp[1], sp[2]), FpMinLift)}

\* C3's case: line 241 has returned a rule whose confidence is below 0.3.
C3_Witness ==
    /\ pc = "adv_render"
    /\ \E i \in DOMAIN rules_fp : ~Geq(rules_fp[i].rule.confidence, MinConfidence)

\* The other side of C3's case: line 241 has left out a split of confidence
\* >= 0.3 whose lift is below 1.
C3_LiftExcludes ==
    /\ pc = "adv_render"
    /\ \E sp \in ProperSplits(frequent_itemsets_fp) :
          /\ sp \notin RuleSplits(rules_fp)
          /\ Geq(TrueConfidence(sp[1], sp[2]), MinConfidence)

\* C3, as stated: each call of association_rules returns exactly the splits
\* with confidence >= min_confidence, the only threshold it enforces.
C3_OnlyConfidenceThreshold ==
    /\ pc = "rules" =>
          RuleSplits(rules) =
             {sp \in ProperSplits(frequent_itemsets) :
                 Geq(TrueConfidence(sp[1], sp[2]), MinConfidence)}
    /\ pc = "adv_render" =>
          RuleSplits(rules_fp) =
             {sp \in ProperSplits(frequent_itemsets_fp) :
                 Geq(TrueConfidence(sp[1], sp[2]), MinConfidence)}

\* A rule row of either rule frame is well scored.
WellScored(r) ==
    /\ r.antecedents # {} /\ r.consequents # {}
    /\ r.antecedents \cap r.consequents = {}
    /\ TxCount(r.antecedents) > 0 /\ TxCount(r.consequents) > 0
    /\ r.antecedent_support[1] > 0 /\ r.consequent_support[1] > 0
    /\ r.confidence[2] # 0 /\ r.lift[2] # 0
    /\ SameFraction(r.confidence, TrueConfidence(r.antecedents, r.consequents))
    /\ r.confidence[1] > 0 /\ r.confidence[1] <= r.confidence[2]
    /\ SameFraction(r.lift, TrueLift(r.antecedents, r.consequents))
    /\ r.lift[1] > 0

\* C4: every rule of a rule frame, when the frame is built (line 83),
\* filtered (line 84) or built from the fpgrowth result (line 241), has disjoint, non-empty antecedent and
\* consequent, confidence = support(union) / support(antecedent) in (0, 1]
\* and lift = confidence / support(consequent) > 0, and no score divides by
\* zero.
C4_RuleScores ==
    pc \in {"rules", "sidebar", "adv_render"} =>
        /\ \A i \in DOMAIN rules : WellScored(rules[i].rule)
        /\ \A i \in DOMAIN rules_fp : WellScored(rules_fp[i].rule)

\* C4's case: both rule frames hold rules, one of confidence below 1.
C4_Witness ==
    /\ pc = "adv_render"
    /\ rules # <<>>
    /\ \E i \in DOMAIN rules_fp : rules_fp[i].rule.confidence[1] < rules_fp[i].rule.confidence[2]

DownwardClosed(fi) ==
    \A i \in DOMAIN fi : \A S \in NonEmptySubsets(fi[i].itemsets) :
        \E j \in DOMAIN fi : /\ fi[j].itemsets = S
                              /\ Geq(fi[j].support, fi[i].support)

\* C5: every non-empty subset of an itemset of a miner's result is in that
\* result with a support at least as large, so association_rules finds the
\* support of every antecedent and every consequent in the frame it is given
\* (it never raises KeyError).
C5_DownwardClosure ==
    /\ DownwardClosed(frequent_itemsets)
    /\ DownwardClosed(frequent_itemsets_fp)
    /\ raised # "KeyError"
    /\ \A sp \in ProperSplits(frequent_itemsets) :
          HasSupport(frequent_itemsets, sp[1]) /\ HasSupport(frequent_itemsets, sp[2])
    /\ \A sp \in ProperSplits(frequent_itemsets_fp) :
          HasSupport(frequent_itemsets_fp, sp[1]) /\ HasSupport(frequent_itemsets_fp, sp[2])

\* C5's case: both miners have returned an itemset of three items and both
\* rule frames are built.
C5_Witness ==
    /\ pc = "adv_render"
    /\ \E i \in DOMAIN frequent_itemsets : Cardinality(frequent_itemsets[i].itemsets) = 3
    /\ \E i \in DOMAIN frequent_itemsets_fp : Cardinality(frequent_itemsets_fp[i].itemsets) = 3

MinersSkipped ==
    defined \cap {"basket", "frequent_itemsets", "rules", "frequent_itemsets_fp",
                  "rules_fp"} = {}

\* C6, as amended: when the loaded frame is empty no exception is raised and
\* no miner is called; the run ends normally after st.warning("Data could not
\* be loaded."), which follows st.error when the file is missing, with no
\* itemsets and no rules.
C6_EmptyDataWarns ==
    ("df" \in defined /\ df = <<>>) =>
        /\ raised = "none"
        /\ MinersSkipped
        /\ frequent_itemsets = <<>> /\ rules = <<>>
        /\ frequent_itemsets_fp = <<>> /\ rules_fp = <<>>
        /\ pc \in {"loaded", "done"}
        /\ pc = "done" =>
              /\ messages # <<>>
              /\ messages[Len(messages)] = Msg("warning", "Data could not be loaded.")
              /\ \A i \in DOMAIN messages : messages[i].kind = "error" => ~csv.exists
              /\ ~csv.exists => messages[1].kind = "error"

\* C6's case: the CSV file exists and has no row, and the run has ended.
C6_Witness == pc = "done" /\ csv.exists /\ df = <<>> /\ Len(messages) = 1

\* C6, as stated: a run over an empty dataset ends in EmptyInputError.
C6_EmptyInputError ==
    ("df" \in defined /\ df = <<>> /\ pc = "done") => raised = "EmptyInputError"

\* sort_values(ascending=False).head(k) of a stable sort
StableTopK(rows, keys, k) ==
    LET s == StablePrefix(keys, DOMAIN rows, k)
    IN  [i \in 1..Len(s) |-> rows[s[i]]]

\* C7: sorting the rules by lift or by confidence and taking the top K gives
\* the K rules of largest metric in descending order, rules of equal metric
\* in the order of the rule frame, and leaves the rule frame as it was.
C7_StableTopK ==
    /\ (pc = "done" /\ menu = "Golden Rules") =>
          shown[1].rows = StableTopK(rules, LiftKeys(rules), 10)
    /\ (pc = "done" /\ menu = "Business Strategy") =>
          /\ shown[1].rows = StableTopK(rules, LiftKeys(rules), 1)
          /\ shown[2].rows = StableTopK(rules, ConfidenceKeys(rules), 3)

\* C8, as amended: a candidate of size k is a frequent (k-1)-itemset
\* extended by one item that is larger than its last item and occurs in
\* some frequent (k-1)-itemset; its other (k-1)-subsets are not looked at.
C8_CandidatesByExtension ==
    \A c \in Range(combin) :
        /\ Len(c) >= 2
        /\ SubSeq(c, 1, Len(c) - 1) \in Range(itemset_dict[Len(c) - 1])
        /\ c[Len(c)] > c[Len(c) - 1]
        /\ c[Len(c)] \in UNION LevelBelow(c)

\* C8's case: a generated candidate with a (k-1)-subset that is not
\* frequent.
C8_Witness ==
    /\ pc = "mined"
    /\ \E c \in Range(combin) : \E s \in SubsetsOneSmaller(c) : s \notin LevelBelow(c)

\* C8, as stated: a candidate is generated only if every one of its
\* (k-1)-subsets was found frequent at the level below.
C8_AllSubsetsFrequent ==
    \A c \in Range(combin) : \A s \in SubsetsOneSmaller(c) : s \in LevelBelow(c)

\* C9: apriori's search always terminates; when it has stopped, no itemset
\* one larger than the last stored level is frequent, no stored level above
\* the first is empty, and the last level is at most the number of items.
C9_AprioriTerminates ==
    /\ (pc = "apriori") ~> (pc = "mined")
    /\ [](pc = "apriori" =>
            /\ max_itemset = Len(itemset_dict)
            /\ \A k \in 2..max_itemset : itemset_dict[k] # <<>>)
    /\ []("frequent_itemsets" \in defined =>
            /\ max_itemset <= Len(basket.columns)
            /\ \A k \in 2..max_itemset : itemset_dict[k] # <<>>
            /\ \A S \in NonEmptySubsets(AllItems) :
                  Cardinality(S) = max_itemset + 1 => ~Geq(TrueSupport(S), min_support))

\* C9's case: the search has stopped after storing three levels.
C9_Witness == pc = "mined" /\ max_itemset = 3 /\ combin = <<>>

\* C10: every itemset of the fpgrowth result (min_support 0.05) is in the
\* apriori result (min_support 0.01) with the same support, and the itemsets
\* apriori has beyond it have a support in [0.01, 0.05).
C10_FpWithinApriori ==
    "frequent_itemsets_fp" \in defined =>
        /\ Range(frequent_itemsets_fp) \subseteq Range(frequent_itemsets)
        /\ \A e \in Range(frequent_itemsets) \ Range(frequent_itemsets_fp) :
              Geq(e.support, AprioriMinSupport) /\ ~Geq(e.support, FpMinSupport)

\* C10's case: apriori has returned an itemset that fpgrowth has not.
C10_Witness ==
    /\ pc = "adv_rules"
    /\ frequent_itemsets_fp # <<>>
    /\ Range(frequent_itemsets) \ Range(frequent_itemsets_fp) # {}

============================================================================
